---- MODULE Spec2Model ----
(***************************************************************************)
(* Model of src/data_pipeline.py: MTADataPipeline (load_bus_speeds_data,   *)
(* load_ace_enforcement_data, create_master_dataframe, get_data_summary,   *)
(* _get_date_range) and the entry point main().                            *)
(*                                                                         *)
(* A CSV file on disk is [readable, columns, rows]; rows hold the raw text *)
(* of the cells.  A DataFrame is [columns, dtype, rows]: the column labels *)
(* in order, the dtype of each column and the rows as functions from the   *)
(* column labels to cells.  Cells are tagged records, so that text, NaN,   *)
(* NaT, a Timestamp and None are all different values.                     *)
(***************************************************************************)
EXTENDS Integers, Sequences, FiniteSets, TLC

VARIABLES
    files,              \* data directory: the files each glob matches, in glob order
    master_df,          \* self.master_df
    globbed,            \* the files matched by the last create_master_dataframe call
    bus_speeds_df,      \* local of the last create_master_dataframe call
    ace_enforcement_df, \* local of the last create_master_dataframe call
    master_data,        \* value returned by the last create_master_dataframe call
    error_log,          \* "Error loading file" lines logged by that call, per dataset
    raised,             \* TRUE when an exception reached the caller
    summary,            \* value returned by the last get_data_summary call
    prev_summary,       \* value of the call before it, when no create came between
    ever_loaded,        \* history: some call so far has read at least one record
    exit_code,          \* <<c>> once main() has ended with exit code c, <<>> before
    pc                  \* "idle", "created", "summarised" or "exited"

vars == <<files, master_df, globbed, bus_speeds_df, ace_enforcement_df,
          master_data, error_log, raised, summary, prev_summary, ever_loaded,
          exit_code, pc>>

\* Largest number of files in the data directory (both datasets together).
MaxFiles == 3

----------------------------------------------------------------------------
(* Values *)

None == [kind |-> "None"]
NaN == [kind |-> "NaN"]
NaT == [kind |-> "NaT"]
Str(s) == [kind |-> "str", s |-> s]
Timestamp(d) == [kind |-> "Timestamp", day |-> d]
NoCall == [kind |-> "NoCall"]

Range(s) == {s[i] : i \in DOMAIN s}

\* pd.DataFrame()
EmptyDataFrame == [columns |-> <<>>, dtype |-> [c \in {} |-> "object"], rows |-> <<>>]

\* DataFrame.empty: some axis has length 0
IsEmpty(df) == Len(df.columns) = 0 \/ Len(df.rows) = 0

----------------------------------------------------------------------------
(* The files the data directory may hold *)

Unreadable == [readable |-> FALSE, columns |-> <<>>, rows |-> <<>>]
HeaderOnly == [readable |-> TRUE, columns |-> <<"date">>, rows |-> <<>>]
NoDate == [readable |-> TRUE, columns |-> <<"route_id">>, rows |-> << <<"B1">> >>]
Dated ==
    [readable |-> TRUE, columns |-> <<"route_id", "date">>,
     rows |-> << <<"B1", "2024-01-02">>, <<"B2", "n/a">> >>]
AllBad == [readable |-> TRUE, columns |-> <<"date">>, rows |-> << <<"n/a">> >>]
TwoDates ==
    [readable |-> TRUE, columns |-> <<"Timestamp", "date">>,
     rows |-> << <<"2024-01-05", "2024-01-01">>, <<"", "2024-01-03">> >>]
Violation ==
    [readable |-> TRUE, columns |-> <<"violation_date", "route_id">>,
     rows |-> << <<"2024-01-04", "B1">> >>]

CsvFiles ==
    {Unreadable, HeaderOnly, NoDate, Dated, AllBad, TwoDates, Violation}

----------------------------------------------------------------------------
(* pandas *)

\* Text that parses as a date, with the day it denotes.
DateText ==
    [s \in {"2024-01-01", "2024-01-02", "2024-01-03", "2024-01-04", "2024-01-05"} |->
        CASE s = "2024-01-01" -> 1
          [] s = "2024-01-02" -> 2
          [] s = "2024-01-03" -> 3
          [] s = "2024-01-04" -> 4
          [] s = "2024-01-05" -> 5]

\* A cell as pd.read_csv reads it: an empty field is NaN, anything else text.
ReadCell(text) == IF text = "" THEN NaN ELSE Str(text)

\* pd.read_csv(file_path): raises on a file it cannot parse; every column is read
\* as text (object).
read_csv(file) ==
    IF ~file.readable
    THEN [raises |-> TRUE, df |-> EmptyDataFrame]
    ELSE [raises |-> FALSE,
          df |-> [columns |-> file.columns,
                  dtype |-> [c \in Range(file.columns) |-> "object"],
                  rows |-> [r \in DOMAIN file.rows |->
                              [c \in Range(file.columns) |->
                                  ReadCell(file.rows[r][CHOOSE i \in DOMAIN file.columns :
                                                          file.columns[i] = c])]]]]

\* pd.to_datetime(value, errors='coerce') of one cell
to_datetime(cell) ==
    IF cell.kind = "Timestamp" THEN cell
    ELSE IF cell.kind = "str" /\ cell.s \in DOMAIN DateText THEN Timestamp(DateText[cell.s])
    ELSE NaT

\* to_datetime followed by dropping the records whose value did not parse.
ParseColumnDropBad(df, col) ==
    [columns |-> df.columns,
     dtype |-> [c \in DOMAIN df.dtype |-> IF c = col THEN "datetime64" ELSE df.dtype[c]],
     rows |-> SelectSeq([r \in DOMAIN df.rows |->
                           [c \in DOMAIN df.rows[r] |->
                               IF c = col THEN to_datetime(df.rows[r][c])
                               ELSE df.rows[r][c]]],
                        LAMBDA row : row[col] # NaT)]

\* df[col] = pd.to_datetime(df[col], errors='coerce')
ParseColumn(df, col) ==
    [columns |-> df.columns,
     dtype |-> [c \in DOMAIN df.dtype |-> IF c = col THEN "datetime64" ELSE df.dtype[c]],
     rows |-> [r \in DOMAIN df.rows |->
                 [c \in DOMAIN df.rows[r] |->
                     IF c = col THEN to_datetime(df.rows[r][c]) ELSE df.rows[r][c]]]]

\* The loop with a break: only the first candidate name that is a column is parsed.
RECURSIVE ParseFirstDateColumn(_, _)
ParseFirstDateColumn(df, date_columns) ==
    IF date_columns = <<>> THEN df
    ELSE LET col == Head(date_columns)
         IN IF col \in Range(df.columns) THEN ParseColumn(df, col)
            ELSE ParseFirstDateColumn(df, Tail(date_columns))

\* Lines 65-68 (and 110-113): every candidate name that is a column of df is parsed,
\* in the order of the candidate list.
RECURSIVE ParseDateColumns(_, _)
ParseDateColumns(df, date_columns) ==
    IF date_columns = <<>> THEN df
    ELSE LET col == Head(date_columns)
         IN ParseDateColumns(IF col \in Range(df.columns) THEN ParseColumn(df, col) ELSE df,
                             Tail(date_columns))

\* Column labels of pd.concat: the union, in order of first appearance.
RECURSIVE ConcatColumns(_, _)
ConcatColumns(acc, dataframes) ==
    IF dataframes = <<>> THEN acc
    ELSE ConcatColumns(acc \o SelectSeq(Head(dataframes).columns,
                                        LAMBDA c : c \notin Range(acc)),
                       Tail(dataframes))

\* dtype of a column of pd.concat: datetime64 when every frame that has the column
\* holds it as datetime64, object otherwise.
ConcatDtype(dataframes, c) ==
    IF \A i \in DOMAIN dataframes :
          c \in Range(dataframes[i].columns) => dataframes[i].dtype[c] = "datetime64"
    THEN "datetime64" ELSE "object"

\* Rows of pd.concat: the rows of the frames in order, a column a frame lacks
\* filled with NaT (datetime64) or NaN.
RECURSIVE ConcatRows(_, _, _)
ConcatRows(dataframes, columns, dtype) ==
    IF dataframes = <<>> THEN <<>>
    ELSE LET df == Head(dataframes)
             widened == [r \in 1..Len(df.rows) |->
                            [c \in Range(columns) |->
                                IF c \in Range(df.columns) THEN df.rows[r][c]
                                ELSE IF dtype[c] = "datetime64" THEN NaT ELSE NaN]]
         IN widened \o ConcatRows(Tail(dataframes), columns, dtype)

\* pd.concat(dataframes, ignore_index=True)
concat(dataframes) ==
    LET columns == ConcatColumns(<<>>, dataframes)
        dtype == [c \in Range(columns) |-> ConcatDtype(dataframes, c)]
    IN [columns |-> columns, dtype |-> dtype,
        rows |-> ConcatRows(dataframes, columns, dtype)]

----------------------------------------------------------------------------
(* MTADataPipeline *)

BusDateColumns == <<"date", "Date", "DATE", "timestamp", "Timestamp">>
AceDateColumns == <<"violation_date", "date", "Date", "DATE", "timestamp", "Timestamp">>

\* The body of the try block for one file (lines 60-70): read, parse the date
\* columns; raises when read_csv raises.
TryLoadFile(file, date_columns) ==
    LET read == read_csv(file)
    IN IF read.raises THEN [raises |-> TRUE, df |-> EmptyDataFrame]
       ELSE [raises |-> FALSE, df |-> ParseDateColumns(read.df, date_columns)]

\* A loop without the except clause: the first failing file ends the loop and the
\* exception goes to the caller.
RECURSIVE LoadLoopNoExcept(_, _, _, _)
LoadLoopNoExcept(matched, date_columns, i, acc) ==
    IF i > Len(matched) THEN acc
    ELSE LET got == TryLoadFile(matched[i], date_columns)
         IN IF got.raises
            THEN [acc EXCEPT !.raised = TRUE]
            ELSE LoadLoopNoExcept(matched, date_columns, i + 1,
                                  [acc EXCEPT !.dataframes = Append(@, got.df)])

\* A loop that keeps only the DataFrame of the last file read.
RECURSIVE LoadLoopKeepLast(_, _, _, _)
LoadLoopKeepLast(matched, date_columns, i, acc) ==
    IF i > Len(matched) THEN acc
    ELSE LET got == TryLoadFile(matched[i], date_columns)
         IN IF got.raises
            THEN LoadLoopKeepLast(matched, date_columns, i + 1,
                                  [acc EXCEPT !.errors = Append(@, i)])
            ELSE LoadLoopKeepLast(matched, date_columns, i + 1,
                                  [acc EXCEPT !.dataframes = <<got.df>>])

\* The for loop of lines 58-73 from file i on: a file whose try block raises is
\* logged by the except clause and the loop goes on with the next file.
RECURSIVE LoadLoop(_, _, _, _)
LoadLoop(matched, date_columns, i, acc) ==
    IF i > Len(matched) THEN acc
    ELSE LET got == TryLoadFile(matched[i], date_columns)
         IN IF got.raises
            THEN LoadLoop(matched, date_columns, i + 1,
                          [acc EXCEPT !.errors = Append(@, i)])
            ELSE LoadLoop(matched, date_columns, i + 1,
                          [acc EXCEPT !.dataframes = Append(@, got.df)])

\* Lines 50-80 and 95-125: [df, errors, raised], the DataFrame returned, the
\* positions of the files logged as failed and whether an exception escaped.
LoadCsvFiles(matched, date_columns) ==
    IF matched = <<>>
    THEN [df |-> EmptyDataFrame, errors |-> <<>>, raised |-> FALSE]
    ELSE LET done == LoadLoop(matched, date_columns, 1,
                              [dataframes |-> <<>>, errors |-> <<>>, raised |-> FALSE])
         IN IF done.raised
            THEN [df |-> EmptyDataFrame, errors |-> done.errors, raised |-> TRUE]
            ELSE IF done.dataframes # <<>>
            THEN [df |-> concat(done.dataframes), errors |-> done.errors, raised |-> FALSE]
            ELSE [df |-> EmptyDataFrame, errors |-> done.errors, raised |-> FALSE]

load_bus_speeds_data(matched) == LoadCsvFiles(matched, BusDateColumns)

load_ace_enforcement_data(matched) == LoadCsvFiles(matched, AceDateColumns)

\* Smallest and largest of a column's values as Series.min() and Series.max() give
\* them: NaT is skipped, and the result is NaT when nothing is left.
Days(df, col) ==
    {df.rows[r][col].day : r \in {q \in DOMAIN df.rows : df.rows[q][col].kind = "Timestamp"}}

SeriesMin(df, col) ==
    IF Days(df, col) = {} THEN NaT
    ELSE Timestamp(CHOOSE d \in Days(df, col) : \A e \in Days(df, col) : d <= e)

SeriesMax(df, col) ==
    IF Days(df, col) = {} THEN NaT
    ELSE Timestamp(CHOOSE d \in Days(df, col) : \A e \in Days(df, col) : d >= e)

\* df.select_dtypes(include=['datetime64']).columns
DatetimeColumns(df) == SelectSeq(df.columns, LAMBDA c : df.dtype[c] = "datetime64")

_get_date_range(df) ==
    IF IsEmpty(df) THEN [min_date |-> None, max_date |-> None]
    ELSE LET date_columns == DatetimeColumns(df)
         IN IF Len(date_columns) = 0 THEN [min_date |-> None, max_date |-> None]
            ELSE LET date_col == date_columns[1]
                 IN [min_date |-> SeriesMin(df, date_col),
                     max_date |-> SeriesMax(df, date_col),
                     date_column |-> date_col]

\* One dataset's entry of the summary (lines 213-217 and 218-222).
DatasetSummary(df) ==
    [records |-> Len(df.rows),
     columns |-> IF ~IsEmpty(df) THEN df.columns ELSE <<>>,
     date_range |-> _get_date_range(df)]

\* A summary that reports empty datasets next to the status when nothing is loaded.
SummaryOfWithZeroCounts(master) ==
    IF master = None
    THEN [status |-> "No data loaded",
          bus_speeds |-> DatasetSummary(EmptyDataFrame),
          ace_enforcement |-> DatasetSummary(EmptyDataFrame)]
    ELSE [bus_speeds |-> DatasetSummary(master.bus_speeds),
          ace_enforcement |-> DatasetSummary(master.ace_enforcement),
          merge_status |-> master.merge_status]

\* A summary that also carries the number of files the last call failed to read.
SummaryOfReportingFailures(master) ==
    IF master = None THEN [status |-> "No data loaded"]
    ELSE [bus_speeds |-> DatasetSummary(master.bus_speeds),
          ace_enforcement |-> DatasetSummary(master.ace_enforcement),
          merge_status |-> master.merge_status,
          failed_files |-> Len(error_log.bus_speeds) + Len(error_log.ace_enforcement)]

\* The value get_data_summary returns for a given self.master_df.
SummaryOf(master) ==
    IF master = None THEN [status |-> "No data loaded"]
    ELSE [bus_speeds |-> DatasetSummary(master.bus_speeds),
          ace_enforcement |-> DatasetSummary(master.ace_enforcement),
          merge_status |-> master.merge_status]

\* The master structure of lines 190-194.
MasterStructure(bus, ace) ==
    [kind |-> "dict", bus_speeds |-> bus, ace_enforcement |-> ace,
     merge_status |-> "separate_datasets"]

\* A create_master_dataframe that resets self.master_df when it loads nothing.
StoredMasterReset(before, bus, ace) ==
    IF IsEmpty(bus) /\ IsEmpty(ace) THEN None ELSE MasterStructure(bus, ace)

\* self.master_df after create_master_dataframe has loaded bus and ace (lines
\* 140-194): unchanged when both are empty.
StoredMaster(before, bus, ace) ==
    IF IsEmpty(bus) /\ IsEmpty(ace) THEN before ELSE MasterStructure(bus, ace)

\* The value create_master_dataframe returns (lines 142 and 200).
ReturnedMaster(bus, ace) ==
    IF IsEmpty(bus) /\ IsEmpty(ace) THEN None ELSE MasterStructure(bus, ace)

\* A main() that exits with 1 when create_master_dataframe returned None.
MainExitCodeOnNoData(master) == IF master = None THEN 1 ELSE 0

\* main() calls no sys.exit and lets no exception out: the process ends with 0.
MainExitCode(master) == 0

\* Some matched file is readable and has at least one record.
HasRecords(matched) ==
    \E i \in DOMAIN matched : matched[i].readable /\ Len(matched[i].rows) > 0

----------------------------------------------------------------------------
(* State machine *)

NoFiles == [bus_speeds |-> <<>>, ace_enforcement |-> <<>>]

Init ==
    /\ \E n \in 0..MaxFiles : \E k \in 0..n :
          \E b \in [1..k -> CsvFiles], a \in [1..(n - k) -> CsvFiles] :
             files = [bus_speeds |-> b, ace_enforcement |-> a]
    /\ master_df = None
    /\ globbed = NoFiles
    /\ bus_speeds_df = EmptyDataFrame
    /\ ace_enforcement_df = EmptyDataFrame
    /\ master_data = NoCall
    /\ error_log = NoFiles
    /\ raised = FALSE
    /\ summary = NoCall
    /\ prev_summary = NoCall
    /\ ever_loaded = FALSE
    /\ exit_code = <<>>
    /\ pc = "idle"

\* The effect of one create_master_dataframe call on the pipeline.
CreateEffect ==
    LET bus == load_bus_speeds_data(files.bus_speeds)
        ace == load_ace_enforcement_data(files.ace_enforcement)
    IN /\ globbed' = files
       /\ bus_speeds_df' = bus.df
       /\ ace_enforcement_df' = ace.df
       /\ error_log' = [bus_speeds |-> bus.errors, ace_enforcement |-> ace.errors]
       /\ raised' = (raised \/ bus.raised \/ ace.raised)
       /\ master_df' = StoredMaster(master_df, bus.df, ace.df)
       /\ master_data' = ReturnedMaster(bus.df, ace.df)
       /\ ever_loaded' = (ever_loaded \/ HasRecords(files.bus_speeds)
                                      \/ HasRecords(files.ace_enforcement))

create_master_dataframe ==
    /\ pc # "exited"
    /\ CreateEffect
    /\ prev_summary' = NoCall
    /\ pc' = "created"
    /\ UNCHANGED <<files, summary, exit_code>>

\* A get_data_summary that hands the stored datasets over and forgets them.
get_data_summary_consuming ==
    /\ pc # "exited"
    /\ summary' = SummaryOf(master_df)
    /\ prev_summary' = IF pc = "summarised" THEN summary ELSE NoCall
    /\ pc' = "summarised"
    /\ master_df' = None
    /\ UNCHANGED <<files, globbed, bus_speeds_df, ace_enforcement_df,
                   master_data, error_log, raised, ever_loaded, exit_code>>

get_data_summary ==
    /\ pc # "exited"
    /\ summary' = SummaryOf(master_df)
    /\ prev_summary' = IF pc = "summarised" THEN summary ELSE NoCall
    /\ pc' = "summarised"
    /\ UNCHANGED <<files, master_df, globbed, bus_speeds_df, ace_enforcement_df,
                   master_data, error_log, raised, ever_loaded, exit_code>>

\* main(): a new pipeline, create_master_dataframe, get_data_summary, print, end.
main ==
    /\ pc = "idle"
    /\ CreateEffect
    /\ summary' = SummaryOf(master_df')
    /\ prev_summary' = NoCall
    /\ exit_code' = <<MainExitCode(master_data')>>
    /\ pc' = "exited"
    /\ UNCHANGED files

\* The environment empties the data directory between two calls.
RemoveFiles ==
    /\ pc # "exited"
    /\ files # NoFiles
    /\ files' = NoFiles
    /\ UNCHANGED <<master_df, globbed, bus_speeds_df, ace_enforcement_df, master_data,
                   error_log, raised, summary, prev_summary, ever_loaded, exit_code, pc>>

Next ==
    \/ create_master_dataframe
    \/ get_data_summary
    \/ main
    \/ RemoveFiles

Spec == Init /\ [][Next]_vars

----------------------------------------------------------------------------
(* Helpers of the properties *)

Datasets == {"bus_speeds", "ace_enforcement"}

DateColumnsOf(d) == IF d = "bus_speeds" THEN BusDateColumns ELSE AceDateColumns

LoadedDf(d) == IF d = "bus_speeds" THEN bus_speeds_df ELSE ace_enforcement_df

\* A create_master_dataframe call has returned.
Created == pc \in {"created", "summarised", "exited"}

\* A get_data_summary call has returned after the last create_master_dataframe.
Summarised == pc \in {"summarised", "exited"}

ReadableFiles(matched) == SelectSeq(matched, LAMBDA f : f.readable)

RECURSIVE TotalRows(_)
TotalRows(matched) ==
    IF matched = <<>> THEN 0
    ELSE (IF Head(matched).readable THEN Len(Head(matched).rows) ELSE 0)
         + TotalRows(Tail(matched))

\* Records of the readable files before position i.
RowsBefore(matched, i) == TotalRows(SubSeq(matched, 1, i - 1))

Parseable(text) == text \in DOMAIN DateText

\* The cell the raw text of column c must become in a dataset with the given
\* candidate date columns.
ExpectedCell(date_columns, c, text) ==
    IF c \in Range(date_columns)
    THEN IF Parseable(text) THEN Timestamp(DateText[text]) ELSE NaT
    ELSE IF text = "" THEN NaN ELSE Str(text)

\* Positions of the files of matched that cannot be read, in order.
RECURSIVE FailedPositions(_, _)
FailedPositions(matched, i) ==
    IF i > Len(matched) THEN <<>>
    ELSE (IF matched[i].readable THEN <<>> ELSE <<i>>) \o FailedPositions(matched, i + 1)

----------------------------------------------------------------------------
(* C1 *)

\* Every record of every readable matched file is in the loaded dataset, whatever
\* the other files are.
AllReadRowsLoaded(d) ==
    LET matched == globbed[d]
        df == LoadedDf(d)
    IN /\ Len(df.rows) = TotalRows(matched)
       /\ \A i \in DOMAIN matched : matched[i].readable =>
             \A j \in DOMAIN matched[i].rows : \A k \in DOMAIN matched[i].columns :
                LET c == matched[i].columns[k]
                IN /\ c \in Range(df.columns)
                   /\ df.rows[RowsBefore(matched, i) + j][c]
                         = ExpectedCell(DateColumnsOf(d), c, matched[i].rows[j][k])

\* C1: per-file failure isolation. After a create_master_dataframe call no
\* exception has reached the caller, each file that could not be read is logged
\* (and only those), and each loaded dataset holds all rows of every matched file
\* that was read, whichever position the failing files have.
C1_FailureIsolation ==
    Created =>
        /\ ~raised
        /\ \A d \in Datasets :
              /\ error_log[d] = FailedPositions(globbed[d], 1)
              /\ AllReadRowsLoaded(d)

\* A failing file between two files with records, all three loaded by one call.
C1_Witness ==
    /\ Created
    /\ \E d \in Datasets :
          /\ Len(globbed[d]) = 3
          /\ ~globbed[d][2].readable
          /\ globbed[d][1].readable /\ Len(globbed[d][1].rows) > 0
          /\ globbed[d][3].readable /\ Len(globbed[d][3].rows) > 0
          /\ Len(LoadedDf(d).rows) = Len(globbed[d][1].rows) + Len(globbed[d][3].rows)
          /\ error_log[d] = <<2>>

----------------------------------------------------------------------------
(* C2 *)

\* The candidate date columns of a file that hold a value that is no date.
BadDateCells(d, file) ==
    {<<j, k>> \in (DOMAIN file.rows) \X (DOMAIN file.columns) :
        /\ file.columns[k] \in Range(DateColumnsOf(d))
        /\ ~Parseable(file.rows[j][k])}

\* C2: absent-field tolerance. A value of a candidate date column that does not
\* parse as a date is NaT in the loaded dataset; its record is kept, so the
\* dataset has as many records as the readable files, and the file is not logged
\* as failed.
C2_AbsentFieldTolerance ==
    Created =>
        \A d \in Datasets :
           LET matched == globbed[d]
               df == LoadedDf(d)
           IN /\ Len(df.rows) = TotalRows(matched)
              /\ \A i \in DOMAIN matched : matched[i].readable =>
                    /\ i \notin Range(error_log[d])
                    /\ \A cell \in BadDateCells(d, matched[i]) :
                          df.rows[RowsBefore(matched, i) + cell[1]]
                                 [matched[i].columns[cell[2]]] = NaT

\* A file with a date and a non-date in its date column was loaded: both records
\* are in the dataset, the second with NaT.
C2_Witness ==
    /\ Created
    /\ \E d \in Datasets :
          /\ globbed[d] = <<Dated>>
          /\ error_log[d] = <<>>
          /\ Len(LoadedDf(d).rows) = 2
          /\ LoadedDf(d).rows[1]["date"] = Timestamp(2)
          /\ LoadedDf(d).rows[2]["date"] = NaT
          /\ LoadedDf(d).rows[2]["route_id"] = Str("B2")

----------------------------------------------------------------------------
(* C5 *)

InputCount == TotalRows(globbed.bus_speeds) + TotalRows(globbed.ace_enforcement)

\* C5: record completeness. A create_master_dataframe call that read at least one
\* record builds the master structure, and the structure holds, dataset by
\* dataset, exactly as many records as were read from the files; get_data_summary
\* counts the same numbers.
C5_RecordCompleteness ==
    (Created /\ InputCount > 0) =>
        /\ master_data # None
        /\ master_df = master_data
        /\ \A d \in Datasets : Len(master_df[d].rows) = TotalRows(globbed[d])
        /\ Summarised =>
              /\ \A d \in Datasets : summary[d].records = TotalRows(globbed[d])
              /\ summary.bus_speeds.records + summary.ace_enforcement.records = InputCount

\* Only the enforcement dataset has records, read from two files around a failing
\* one, and the summary counts them.
C5_Witness ==
    /\ Summarised
    /\ globbed = [bus_speeds |-> <<>>, ace_enforcement |-> <<Dated, Unreadable, Violation>>]
    /\ summary.bus_speeds.records = 0
    /\ summary.ace_enforcement.records = 3

----------------------------------------------------------------------------
(* C7 *)

\* A step that is a get_data_summary call (it ends in "summarised" and, unlike
\* RemoveFiles, leaves the directory alone) leaves the pipeline's data as it was.
SummaryStepIsReadOnly ==
    (pc # "exited" /\ pc' = "summarised" /\ files' = files) =>
        /\ master_df' = master_df
        /\ bus_speeds_df' = bus_speeds_df
        /\ ace_enforcement_df' = ace_enforcement_df

\* The second of two get_data_summary calls in a row returns what the first did.
RepeatedSummaryEqual ==
    (pc = "summarised" /\ prev_summary # NoCall) => summary = prev_summary

\* C7: get_data_summary is read-only and recomputable. A call changes neither
\* master_df nor the stored datasets, and two calls in a row with no
\* create_master_dataframe between them return equal summaries, also while
\* master_df is None.
C7_SummaryReadOnly == [][SummaryStepIsReadOnly]_vars /\ []RepeatedSummaryEqual

\* Two get_data_summary calls in a row on a pipeline that holds records.
C7_Witness ==
    /\ pc = "summarised"
    /\ prev_summary # NoCall
    /\ master_df # None
    /\ summary = prev_summary
    /\ summary.bus_speeds.records > 0

----------------------------------------------------------------------------
(* C10 *)

NoRecordsOnDisk == ~HasRecords(files.bus_speeds) /\ ~HasRecords(files.ace_enforcement)

\* What a create_master_dataframe step does to master_df.
CreateStepStores ==
    (pc # "exited" /\ pc' = "created" /\ files' = files) =>
        IF NoRecordsOnDisk
        THEN master_data' = None /\ master_df' = master_df
        ELSE master_data' # None /\ master_df' = master_data'

MasterDfShape ==
    /\ master_df = None <=> ~ever_loaded
    /\ master_df # None =>
          /\ master_df.merge_status = "separate_datasets"
          /\ ~IsEmpty(master_df.bus_speeds) \/ ~IsEmpty(master_df.ace_enforcement)

\* After a call that found no data on a pipeline that had loaded data before, the
\* summary is still the one of the earlier structure.
StaleSummary ==
    (pc = "summarised" /\ master_data = None /\ ever_loaded) =>
        /\ DOMAIN summary = {"bus_speeds", "ace_enforcement", "merge_status"}
        /\ summary.merge_status = "separate_datasets"
        /\ \A d \in Datasets :
              /\ summary[d].records = Len(master_df[d].rows)
              /\ summary[d].columns
                    = IF IsEmpty(master_df[d]) THEN <<>> ELSE master_df[d].columns
        /\ summary.bus_speeds.records + summary.ace_enforcement.records > 0

\* C10: a create_master_dataframe call that loads both datasets empty returns None
\* and leaves master_df as it was; any other call stores and returns the new
\* structure. So master_df is None exactly when no call so far has loaded a
\* record, else it is a 'separate_datasets' structure with a non-empty dataset,
\* and get_data_summary keeps reporting it after a later call that found no data.
C10_MasterDfLifecycle == [][CreateStepStores]_vars /\ []MasterDfShape /\ []StaleSummary

\* Data was loaded, the directory was emptied, a second call returned None, and
\* the summary still reports the records of the first call.
C10_Witness ==
    /\ pc = "summarised"
    /\ files = NoFiles
    /\ globbed = NoFiles
    /\ master_data = None
    /\ master_df # None
    /\ summary.bus_speeds.records + summary.ace_enforcement.records > 0

----------------------------------------------------------------------------
(* C3 *)

\* create_master_dataframe found no file for either glob, and get_data_summary
\* was called after it.
EmptyInputSummarised == Summarised /\ master_data # NoCall /\ globbed = NoFiles

\* C3 as stated: with no file for either glob no exception is raised and the
\* summary reports zero records for both datasets together with a no-data status.
C3_Original ==
    EmptyInputSummarised =>
        /\ ~raised
        /\ {"status", "bus_speeds", "ace_enforcement"} \subseteq DOMAIN summary
        /\ summary.status = "No data loaded"
        /\ summary.bus_speeds.records = 0
        /\ summary.ace_enforcement.records = 0

\* C3 as amended: with no file for either glob no exception is raised and
\* create_master_dataframe returns None; on a pipeline that has loaded no data the
\* summary is the status 'No data loaded' alone, with no entry for either dataset;
\* on a pipeline that loaded data before it has no status and still reports the
\* records of the earlier structure.
C3_EmptyInput ==
    EmptyInputSummarised =>
        /\ ~raised
        /\ master_data = None
        /\ IF ~ever_loaded
           THEN summary = [status |-> "No data loaded"]
           ELSE /\ DOMAIN summary = {"bus_speeds", "ace_enforcement", "merge_status"}
                /\ summary.bus_speeds.records + summary.ace_enforcement.records > 0

\* main() ran on an empty directory.
C3_Witness ==
    /\ pc = "exited"
    /\ globbed = NoFiles
    /\ master_data = None
    /\ summary = [status |-> "No data loaded"]

----------------------------------------------------------------------------
(* C4 *)

\* C4 as stated: main() ends with 0 when a dataset was loaded and with a non-zero
\* exit code when no file was discovered for either dataset.
C4_Original ==
    pc = "exited" =>
        /\ master_data # None => exit_code = <<0>>
        /\ globbed = NoFiles => (exit_code # <<>> /\ exit_code[1] # 0)

\* C4 as amended: main() ends with exit code 0 in every case, also when no file
\* was discovered for either dataset.
C4_ExitCode == (pc = "exited") <=> (exit_code = <<0>>)

\* main() ended with 0 on an empty directory.
C4_Witness ==
    pc = "exited" /\ globbed = NoFiles /\ master_data = None /\ exit_code = <<0>>

----------------------------------------------------------------------------
(* C6 *)

\* The structure in self.master_df was built from the files in globbed, and
\* get_data_summary was called after that.
BuiltAndSummarised == Summarised /\ master_data \notin {None, NoCall}

\* The candidate names that are columns, in candidate-priority order.
CandidatesByPriority(date_columns, columns) ==
    SelectSeq(date_columns, LAMBDA c : c \in Range(columns))

\* The columns with a candidate name, in column order.
CandidatesByPosition(date_columns, columns) ==
    SelectSeq(columns, LAMBDA c : c \in Range(date_columns))

HasCandidate(d, file) ==
    file.readable /\ CandidatesByPosition(DateColumnsOf(d), file.columns) # <<>>

\* The first candidate-named column of the first file read that has one.
FirstDateColumnRead(d) ==
    LET i == CHOOSE i \in DOMAIN globbed[d] :
                 /\ HasCandidate(d, globbed[d][i])
                 /\ \A j \in 1..(i - 1) : ~HasCandidate(d, globbed[d][j])
    IN CandidatesByPosition(DateColumnsOf(d), globbed[d][i].columns)[1]

\* C6 as stated: of several columns with a candidate name only the first in
\* candidate-priority order is treated as the date column, and the date range of
\* the summary is taken from it, whatever the order of the columns in the file.
C6_Original ==
    BuiltAndSummarised =>
        \A d \in Datasets :
           LET df == master_df[d]
               byPriority == CandidatesByPriority(DateColumnsOf(d), df.columns)
           IN (~IsEmpty(df) /\ byPriority # <<>>) =>
                 /\ \A c \in Range(df.columns) :
                       df.dtype[c] = "datetime64" <=> c = byPriority[1]
                 /\ summary[d].date_range.date_column = byPriority[1]

\* C6 as amended: every column whose name is in the candidate list is parsed as a
\* date column, and the date range of the summary is taken from the first of them
\* in the column order of the dataset, which is the first candidate-named column
\* of the first file read that has one, not the first in candidate-priority order.
C6_ColumnOrderResolution ==
    BuiltAndSummarised =>
        \A d \in Datasets :
           LET df == master_df[d]
               dr == summary[d].date_range
           IN (~IsEmpty(df) /\ \E i \in DOMAIN globbed[d] : HasCandidate(d, globbed[d][i])) =>
                 /\ \A c \in Range(df.columns) :
                       df.dtype[c] = "datetime64" <=> c \in Range(DateColumnsOf(d))
                 /\ dr.date_column = FirstDateColumnRead(d)
                 /\ dr.min_date \in {NaT} \cup {df.rows[r][dr.date_column] : r \in DOMAIN df.rows}
                 /\ dr.max_date \in {NaT} \cup {df.rows[r][dr.date_column] : r \in DOMAIN df.rows}

\* A file with the columns Timestamp, date in that order: both are date columns
\* and the range comes from Timestamp, although date is first by priority.
C6_Witness ==
    /\ BuiltAndSummarised
    /\ \E d \in Datasets :
          /\ globbed[d] = <<TwoDates>>
          /\ DatetimeColumns(master_df[d]) = <<"Timestamp", "date">>
          /\ CandidatesByPriority(DateColumnsOf(d), master_df[d].columns)[1] = "date"
          /\ summary[d].date_range.date_column = "Timestamp"
          /\ summary[d].date_range.min_date = Timestamp(5)

----------------------------------------------------------------------------
(* C8 *)

FailedFileCount == Len(error_log.bus_speeds) + Len(error_log.ace_enforcement)

\* The summary of a run of the same calls in which the files that failed were not
\* in the directory, so that no file failed.
SummaryWithoutFailedFiles ==
    SummaryOf(MasterStructure(
        load_bus_speeds_data(ReadableFiles(globbed.bus_speeds)).df,
        load_ace_enforcement_data(ReadableFiles(globbed.ace_enforcement)).df))

DatasetKeys == {"records", "columns", "date_range"}

\* C8 as stated: when k > 0 matched files failed, that can be read from the
\* summary; so the summary differs from the one of the run in which no file failed.
C8_Original ==
    (BuiltAndSummarised /\ FailedFileCount > 0) => summary # SummaryWithoutFailedFiles

\* C8 as amended: a per-file load failure is visible only in the log, one error
\* line for each file that failed. The summary has the keys bus_speeds,
\* ace_enforcement and merge_status, each dataset entry the keys records, columns
\* and date_range, and it is equal to the summary of a run without the failed files.
C8_FailuresOnlyLogged ==
    BuiltAndSummarised =>
        /\ \A d \in Datasets :
              Len(error_log[d]) = Cardinality({i \in DOMAIN globbed[d] : ~globbed[d][i].readable})
        /\ DOMAIN summary = {"bus_speeds", "ace_enforcement", "merge_status"}
        /\ \A d \in Datasets : DOMAIN summary[d] = DatasetKeys
        /\ summary = SummaryWithoutFailedFiles

\* Two files failed and one was read: two error lines, and a summary that is the
\* one of the readable file alone.
C8_Witness ==
    /\ BuiltAndSummarised
    /\ FailedFileCount = 2
    /\ summary = SummaryWithoutFailedFiles
    /\ summary.bus_speeds.records + summary.ace_enforcement.records > 0

----------------------------------------------------------------------------
(* C9 *)

\* C9 as stated: for each dataset the summary gives None for both dates when the
\* dataset is empty or has no date column; otherwise min_date and max_date are the
\* smallest and the largest parsed timestamp of the date column, min_date <=
\* max_date, and neither is an absent timestamp (NaT).
C9_DateRange ==
    (Summarised /\ master_df # None) =>
        \A d \in Datasets :
           LET df == master_df[d]
               dr == summary[d].date_range
               dated == CandidatesByPosition(DateColumnsOf(d), df.columns)
           IN IF IsEmpty(df) \/ dated = <<>>
              THEN dr.min_date = None /\ dr.max_date = None
              ELSE /\ dr.min_date.kind = "Timestamp"
                   /\ dr.max_date.kind = "Timestamp"
                   /\ dr.min_date.day <= dr.max_date.day
                   /\ \A r \in DOMAIN df.rows :
                         df.rows[r][dated[1]].kind = "Timestamp" =>
                            /\ dr.min_date.day <= df.rows[r][dated[1]].day
                            /\ df.rows[r][dated[1]].day <= dr.max_date.day

====
